---------------------------- MODULE Spec2Model ----------------------------
(***************************************************************************)
(* A model of tibiavision.js: the two lookups getItemInfo and              *)
(* getCreatureInfo, the fetchJson helper and the interactionCreate         *)
(* handler that turns a lookup's outcome into the reply.                   *)
(*                                                                         *)
(* Strings are sequences of fragments.  A fragment is a one-character      *)
(* string when the text comes from the network (wikitext, JSON strings,    *)
(* the name typed by the user) and a whole literal when it is a literal of *)
(* the source ("You see ", "(Empty Slot)").  Concatenation is \o.          *)
(*                                                                         *)
(* One invocation of the handler runs at a time: invocations share no      *)
(* state.  The URLs of the requests are left out, only which request is    *)
(* issued and how it settles is kept; deferReply and editReply, which the  *)
(* discord.js client carries out, always succeed.                          *)
(***************************************************************************)
EXTENDS Integers, Sequences, FiniteSets

VARIABLES
  pc,           \* position of the handler and of the lookup it awaits
  commandName,  \* interaction.commandName
  name,         \* interaction.options.getString('name')
  requests,     \* outbound HTTP requests issued by this invocation, in order
  dataRes,      \* how the data fetch (fetchJson) settled
  htmlRes,      \* how the rendered-page fetch settled
  wikitext,     \* getItemInfo: apiData.parse.wikitext
  info,         \* getItemInfo: the FieldMap
  look,         \* getItemInfo: the description built so far
  creature,     \* getCreatureInfo: the record returned by the API
  weaknesses,   \* getCreatureInfo
  strengths,    \* getCreatureInfo
  image,        \* both lookups: the scraped og:image, or Undefined
  result,       \* what the lookup's promise settled to
  reply         \* what the interaction shows

vars == <<pc, commandName, name, requests, dataRes, htmlRes, wikitext, info,
          look, creature, weaknesses, strengths, image, result, reply>>

---------------------------------------------------------------------------
(* Bounds of the model.                                                    *)

MaxLineLen == 5   \* longest probe line of SpecParse
MaxSlots == 3     \* largest imbuement-slot count of SpecItem
MaxSlotLen == 2   \* longest free-form imbuement-slot value of SpecItem
MaxCompanions == 1 \* most modifier fields beside the probed one in SpecCreature
Spread == 1       \* tenths of a percent explored on each side of the baseline

(* Program constants.                                                      *)

Baseline == 100   \* the percentage weaknesses and strengths are told by
Radix == 10       \* parseInt(..., 10)

---------------------------------------------------------------------------
(* Characters and strings.                                                 *)

Upper == <<"A","B","C","D","E","F","G","H","I","J","K","L","M",
           "N","O","P","Q","R","S","T","U","V","W","X","Y","Z">>
Lower == <<"a","b","c","d","e","f","g","h","i","j","k","l","m",
           "n","o","p","q","r","s","t","u","v","w","x","y","z">>
Digits == <<"0","1","2","3","4","5","6","7","8","9">>

IsUpper(c) == \E i \in 1..Len(Upper) : Upper[i] = c
IsDigit(c) == \E i \in 1..Len(Digits) : Digits[i] = c
DigitVal(c) == (CHOOSE i \in 1..Len(Digits) : Digits[i] = c) - 1
\* the characters \s matches, of those the model uses
IsSpace(c) == c \in {" ", "\t", "\r", "\n"}

LowerChar(c) == IF IsUpper(c) THEN Lower[CHOOSE i \in 1..Len(Upper) : Upper[i] = c]
                ELSE c
\* String.prototype.toLowerCase
ToLowerCase(s) == [i \in 1..Len(s) |-> LowerChar(s[i])]

Slice(s, a, b) == IF a > b THEN <<>> ELSE SubSeq(s, a, b)

\* String.prototype.trim
Trim(s) ==
  LET keep == {i \in 1..Len(s) : ~IsSpace(s[i])}
  IN IF keep = {} THEN <<>>
     ELSE Slice(s, CHOOSE i \in keep : \A j \in keep : i <= j,
                   CHOOSE i \in keep : \A j \in keep : i >= j)

\* the decimal numeral of a natural number, as String(n) prints it
RECURSIVE NatToString(_)
NatToString(n) ==
  IF n < 10 THEN <<Digits[n + 1]>>
  ELSE NatToString(n \div 10) \o <<Digits[(n % 10) + 1]>>

\* Array.prototype.join
RECURSIVE Join(_, _)
Join(parts, sep) ==
  IF parts = <<>> THEN <<>>
  ELSE IF Len(parts) = 1 THEN parts[1]
  ELSE parts[1] \o sep \o Join(Tail(parts), sep)

\* String.prototype.repeat
RECURSIVE Repeat(_, _)
Repeat(s, n) == IF n <= 0 THEN <<>> ELSE s \o Repeat(s, n - 1)

---------------------------------------------------------------------------
(* JavaScript values, as far as the program tells them apart.              *)

Undefined == [t |-> "undefined"]
JNull == [t |-> "null"]
JBool(b) == [t |-> "bool", b |-> b]
JNum(n) == [t |-> "num", n |-> n]
JStr(s) == [t |-> "str", s |-> s]
JArr == [t |-> "arr"]
JObj(fields) == [t |-> "obj", o |-> fields]

\* ToBoolean, as !x, x || y and if (x) apply it
Truthy(v) ==
  CASE v.t = "undefined" -> FALSE
    [] v.t = "null" -> FALSE
    [] v.t = "bool" -> v.b
    [] v.t = "num" -> v.n # 0
    [] v.t = "str" -> v.s # <<>>
    [] OTHER -> TRUE

\* typeof v === 'object'
TypeofObject(v) == v.t \in {"obj", "arr", "null"}

\* v.f : the property f of v (v is neither null nor undefined)
Prop(v, f) == IF v.t = "obj" /\ f \in DOMAIN v.o THEN v.o[f] ELSE Undefined

\* String(v) and `${v}`
JsString(v) ==
  CASE v.t = "undefined" -> <<"undefined">>
    [] v.t = "null" -> <<"null">>
    [] v.t = "bool" -> IF v.b THEN <<"true">> ELSE <<"false">>
    [] v.t = "num" -> NatToString(v.n)
    [] v.t = "str" -> v.s
    [] v.t = "arr" -> <<>>
    [] OTHER -> <<"[object Object]">>

---------------------------------------------------------------------------
(* getItemInfo: the wikitext and the FieldMap.                             *)

(* wikitext.split(/\r?\n/): the text is cut at every "\n", and a "\r"     *)
(* right before the "\n" belongs to the separator.                         *)
SplitLines(text) ==
  LET nl == {i \in 1..Len(text) : text[i] = "\n"}
      \* the position of the k-th "\n"; one past the end for the last line
      cut(k) == IF k > Cardinality(nl) THEN Len(text) + 1
                ELSE CHOOSE i \in nl : Cardinality({j \in nl : j < i}) = k - 1
      first(k) == IF k = 1 THEN 1 ELSE cut(k - 1) + 1
      last(k) == IF /\ k <= Cardinality(nl)
                    /\ cut(k) - 1 >= first(k)
                    /\ text[cut(k) - 1] = "\r"
                 THEN cut(k) - 2 ELSE cut(k) - 1
  IN [k \in 1..(Cardinality(nl) + 1) |-> Slice(text, first(k), last(k))]

NoMatch == [matched |-> FALSE]

(* line.match of the infobox pattern (a pipe at the start of the line, a  *)
(* lazy key group without "=", "=", a greedy value group up to the end,    *)
(* white space allowed around both groups), with the trim and the lower    *)
(* casing the loop applies to its two groups.  Neither \s nor [^=] matches *)
(* "=", so the "=" of the pattern is the first one of the line, and at     *)
(* least one character lies between the pipe and it.  "." matches no line  *)
(* terminator, so whatever precedes the last one after the "=" has to be   *)
(* white space for \s* to take it.  The groups differ from the text around *)
(* them by white space only, which trim removes.                           *)
MatchLine(line) ==
  IF Len(line) = 0 \/ line[1] # "|" THEN NoMatch
  ELSE LET eqs == {i \in 2..Len(line) : line[i] = "="}
       IN IF eqs = {} THEN NoMatch
          ELSE LET e == CHOOSE i \in eqs : \A j \in eqs : i <= j
                   rest == Slice(line, e + 1, Len(line))
                   lts == {i \in 1..Len(rest) : rest[i] \in {"\r", "\n"}}
               IN IF e = 2 THEN NoMatch
                  ELSE IF \E l \in lts : \E i \in 1..l : ~IsSpace(rest[i])
                       THEN NoMatch
                  ELSE [matched |-> TRUE,
                        key |-> ToLowerCase(Trim(Slice(line, 2, e - 1))),
                        value |-> Trim(rest)]

EmptyInfo == [k \in {} |-> <<>>]

\* info[key] = value
SetField(map, key, value) ==
  [k \in DOMAIN map \cup {key} |-> IF k = key THEN value ELSE map[k]]

\* the loop over the lines of the wikitext
RECURSIVE ParseLines(_, _)
ParseLines(lines, map) ==
  IF lines = <<>> THEN map
  ELSE LET m == MatchLine(Head(lines))
       IN ParseLines(Tail(lines),
                     IF m.matched THEN SetField(map, m.key, m.value) ELSE map)

ParseInfo(text) == ParseLines(SplitLines(text), EmptyInfo)

\* info[k], truthy
Has(map, k) == k \in DOMAIN map /\ map[k] # <<>>

\* info[k1] || info[k2] || ... || dflt
RECURSIVE FirstOf(_, _, _)
FirstOf(map, keys, dflt) ==
  IF keys = <<>> THEN dflt
  ELSE IF Has(map, Head(keys)) THEN map[Head(keys)]
  ELSE FirstOf(map, Tail(keys), dflt)

K_article == <<"a","r","t","i","c","l","e">>
K_actualname == <<"a","c","t","u","a","l","n","a","m","e">>
K_armor == <<"a","r","m","o","r">>
K_attrib == <<"a","t","t","r","i","b">>
K_resist == <<"r","e","s","i","s","t">>
K_imbueslots == <<"i","m","b","u","e","s","l","o","t","s">>
K_imbuing_slots == <<"i","m","b","u","i","n","g"," ","s","l","o","t","s">>
K_upgradeclass == <<"u","p","g","r","a","d","e","c","l","a","s","s">>
K_upgrade == <<"u","p","g","r","a","d","e">>
K_tier == <<"t","i","e","r">>
K_vocationrequired == <<"v","o","c","a","t","i","o","n","r","e","q","u","i","r","e","d">>
K_vocrequired == <<"v","o","c","r","e","q","u","i","r","e","d">>
K_required_vocation == <<"r","e","q","u","i","r","e","d"," ","v","o","c","a","t","i","o","n">>
K_levelrequired == <<"l","e","v","e","l","r","e","q","u","i","r","e","d">>
K_level_req == <<"l","e","v","e","l"," ","r","e","q">>
K_weight == <<"w","e","i","g","h","t">>

NaN == [nan |-> TRUE, n |-> 0]
Finite(n) == [nan |-> FALSE, n |-> n]

RECURSIVE DigitsValue(_, _, _)
DigitsValue(s, i, acc) ==
  IF i > Len(s) \/ ~IsDigit(s[i]) THEN acc
  ELSE DigitsValue(s, i + 1, acc * Radix + DigitVal(s[i]))

(* parseInt(s, 10): white space is skipped, a sign is read, then the       *)
(* longest run of digits; what follows the run is ignored, and NaN is the  *)
(* result when the run is empty.                                           *)
ParseInt(s) ==
  LET body == {i \in 1..Len(s) : ~IsSpace(s[i])}
  IN IF body = {} THEN NaN
     ELSE LET b == CHOOSE i \in body : \A j \in body : i <= j
              signed == s[b] \in {"+", "-"}
              d == IF signed THEN b + 1 ELSE b
          IN IF d > Len(s) \/ ~IsDigit(s[d]) THEN NaN
             ELSE IF signed /\ s[b] = "-" THEN Finite(0 - DigitsValue(s, d, 0))
             ELSE Finite(DigitsValue(s, d, 0))

\* /^[aeiou]/i.test(s)
VowelStart(s) == Len(s) > 0 /\ LowerChar(s[1]) \in {"a", "e", "i", "o", "u"}

(* weight.replace of the unit suffix: the leftmost match is removed.  From  *)
(* a start i the pattern matches when the white space at i is followed by  *)
(* "oz", in either case; a "." after it is taken too.                      *)
AfterSpace(s, i) ==
  LET rest == {j \in i..Len(s) : ~IsSpace(s[j])}
  IN IF rest = {} THEN Len(s) + 1 ELSE CHOOSE j \in rest : \A k \in rest : j <= k

OzAt(s, i) ==
  LET j == AfterSpace(s, i)
  IN j + 1 <= Len(s) /\ LowerChar(s[j]) = "o" /\ LowerChar(s[j + 1]) = "z"

StripOz(s) ==
  LET starts == {i \in 1..Len(s) : OzAt(s, i)}
  IN IF starts = {} THEN s
     ELSE LET i == CHOOSE a \in starts : \A b \in starts : a <= b
              z == AfterSpace(s, i) + 1
              last == IF z + 1 <= Len(s) /\ s[z + 1] = "." THEN z + 1 ELSE z
          IN Slice(s, 1, i - 1) \o Slice(s, last + 1, Len(s))

Article(map) ==
  IF Has(map, K_article) THEN map[K_article]
  ELSE IF Has(map, K_actualname) /\ VowelStart(map[K_actualname]) THEN <<"an">>
  ELSE <<"a">>

ActualName(map, nm) == IF Has(map, K_actualname) THEN map[K_actualname] ELSE nm

ImbueSlots(map) == ParseInt(FirstOf(map, <<K_imbueslots, K_imbuing_slots>>, <<"0">>))

\* !(imbueSlots <= 0), which NaN passes
HasSlotsNotLe(slots) == ~(~slots.nan /\ slots.n <= 0)

\* imbueSlots > 0; every comparison with NaN is false
HasSlots(slots) == ~slots.nan /\ slots.n > 0

\* `\nImbuements: ${'(Empty Slot)'.repeat(imbueSlots)}`, or the None line
ImbueLine(slots) ==
  IF HasSlots(slots) THEN <<"\nImbuements: ">> \o Repeat(<<"(Empty Slot)">>, slots.n)
  ELSE <<"\nImbuements: None">>

Parts(map) ==
  (IF Has(map, K_armor) THEN << <<"Arm:">> \o map[K_armor] >> ELSE <<>>)
  \o (IF Has(map, K_attrib) THEN << map[K_attrib] >> ELSE <<>>)
  \o (IF Has(map, K_resist) THEN << <<"protection ">> \o map[K_resist] >> ELSE <<>>)

\* the description getItemInfo builds from the FieldMap and the name
ItemLook(map, nm) ==
  LET upgradeClass == FirstOf(map, <<K_upgradeclass, K_upgrade>>, <<>>)
      tier == FirstOf(map, <<K_tier>>, <<"0">>)
      vocationRequired ==
        FirstOf(map, <<K_vocationrequired, K_vocrequired, K_required_vocation>>, <<>>)
      levelRequired == FirstOf(map, <<K_levelrequired, K_level_req>>, <<>>)
      weight == IF Has(map, K_weight) THEN Trim(StripOz(map[K_weight])) ELSE <<>>
  IN <<"You see ">> \o Article(map) \o <<" ">>
       \o ToLowerCase(ActualName(map, nm)) \o <<" (">>
       \o Join(Parts(map), <<", ">>) \o <<").">>
     \o ImbueLine(ImbueSlots(map))
     \o (IF upgradeClass # <<>> THEN <<"\nClassification: ">> \o upgradeClass ELSE <<>>)
     \o <<" Tier: ">> \o tier \o <<".">>
     \o (IF vocationRequired # <<>>
         THEN <<"\nIt can only be wielded properly by ">> \o vocationRequired
              \o <<" of level ">>
              \o (IF levelRequired # <<>> THEN levelRequired ELSE <<"?">>)
              \o <<" or higher.">>
         ELSE IF levelRequired # <<>>
         THEN <<"\nIt requires level ">> \o levelRequired \o <<" or higher.">>
         ELSE <<>>)
     \o (IF weight # <<>> THEN <<"\nIt weighs ">> \o weight \o <<" oz.">> ELSE <<>>)

---------------------------------------------------------------------------
(* getCreatureInfo: the record, the damage modifiers, the description.     *)

\* the test without its third part
CreatureAcceptedAnyObject(c) == Truthy(c) /\ TypeofObject(c)

\* !creature || typeof creature !== 'object' || !creature.hp, negated
CreatureAccepted(c) == Truthy(c) /\ TypeofObject(c) /\ Truthy(Prop(c, "hp"))

\* the entries of dmgMods, in the order Object.entries lists them
Elements == <<
  [element |-> "physical", field |-> "physicalDmgMod"],
  [element |-> "fire", field |-> "fireDmgMod"],
  [element |-> "ice", field |-> "iceDmgMod"],
  [element |-> "energy", field |-> "energyDmgMod"],
  [element |-> "earth", field |-> "earthDmgMod"],
  [element |-> "holy", field |-> "holyDmgMod"],
  [element |-> "death", field |-> "deathDmgMod"],
  [element |-> "drown", field |-> "drownDmgMod"],
  [element |-> "hpdraindmg", field |-> "hpDrainDmgMod"] >>

\* String(mod).replace(/[^0-9\.]/g, '')
StripNonNumeric(s) == SelectSeq(s, LAMBDA c : IsDigit(c) \/ c = ".")

RECURSIVE DigitRun(_, _)
\* the end of the run of digits that starts at i
DigitRun(s, i) == IF i > Len(s) \/ ~IsDigit(s[i]) THEN i ELSE DigitRun(s, i + 1)

RECURSIVE Pow10(_)
Pow10(k) == IF k = 0 THEN 1 ELSE 10 * Pow10(k - 1)

NotANumber == [nan |-> TRUE, num |-> 0, scale |-> 0]

(* parseFloat of a string of digits and dots: the longest prefix that is a *)
(* decimal literal (digits, then optionally a dot and digits, one of the   *)
(* two runs not empty), NaN when there is none.  The value is              *)
(* num / 10^scale.                                                         *)
ParseFloat(s) ==
  LET a == DigitRun(s, 1)
      dot == a <= Len(s) /\ s[a] = "."
      b == IF dot THEN DigitRun(s, a + 1) ELSE a
      int == Slice(s, 1, a - 1)
      frac == IF dot THEN Slice(s, a + 1, b - 1) ELSE <<>>
  IN IF int = <<>> /\ frac = <<>> THEN NotANumber
     ELSE [nan |-> FALSE, num |-> DigitsValue(int \o frac, 1, 0), scale |-> Len(frac)]

Numeric(mod) == ParseFloat(StripNonNumeric(JsString(mod)))

\* numeric >= 100
IsWeaknessOrBaseline(numeric) ==
  ~numeric.nan /\ numeric.num >= Baseline * Pow10(numeric.scale)

\* numeric > 100
IsWeakness(numeric) == ~numeric.nan /\ numeric.num > Baseline * Pow10(numeric.scale)
\* numeric < 100
IsStrength(numeric) == ~numeric.nan /\ numeric.num < Baseline * Pow10(numeric.scale)

\* `${element} (${mod})`
Entry(element, mod) == <<element>> \o <<" (">> \o JsString(mod) \o <<")">>

\* the loop over Object.entries(dmgMods): what it pushes on one of the lists
RECURSIVE Classified(_, _, _)
Classified(c, i, weak) ==
  IF i > Len(Elements) THEN <<>>
  ELSE LET mod == Prop(c, Elements[i].field)
           numeric == Numeric(mod)
           here == IF mod.t = "undefined" THEN <<>>
                   ELSE IF weak /\ IsWeakness(numeric)
                        THEN << Entry(Elements[i].element, mod) >>
                   ELSE IF ~weak /\ ~IsWeakness(numeric) /\ IsStrength(numeric)
                        THEN << Entry(Elements[i].element, mod) >>
                   ELSE <<>>
       IN here \o Classified(c, i + 1, weak)

Weaknesses(c) == Classified(c, 1, TRUE)
Strengths(c) == Classified(c, 1, FALSE)

\* the description getCreatureInfo returns
Description(c, weak, strong) ==
  <<"Hit Points: ">> \o JsString(Prop(c, "hp"))
  \o <<"\nExperience: ">> \o JsString(Prop(c, "exp"))
  \o <<"\nWeak against: ">> \o (IF Len(weak) > 0 THEN Join(weak, <<", ">>) ELSE <<"none">>)
  \o <<"\nStrong against: ">>
  \o (IF Len(strong) > 0 THEN Join(strong, <<", ">>) ELSE <<"none">>)

\* creature.actualname || creature.name || name
CreatureTitle(c, nm) ==
  IF Truthy(Prop(c, "actualname")) THEN JsString(Prop(c, "actualname"))
  ELSE IF Truthy(Prop(c, "name")) THEN JsString(Prop(c, "name"))
  ELSE nm

---------------------------------------------------------------------------
(* The rendered page.  Its HTML is the sequence of its meta tags, each     *)
(* with the property and the content it carries; the pattern of the scrape *)
(* matches the first og:image tag whose content is not empty.              *)

ScrapeImage(html) ==
  LET hits == {i \in 1..Len(html) :
                 html[i].property = "og:image" /\ html[i].content # <<>>}
  IN IF hits = {} THEN Undefined
     ELSE JStr(html[CHOOSE i \in hits : \A j \in hits : i <= j].content)

---------------------------------------------------------------------------
(* The handler of interactionCreate.                                       *)

\* the two messages, without the cross mark they start with
ItemFailure == "Unable to find information for that item."
CreatureFailure == "Unable to find information for that creature."

\* one message for both commands
FailureMessageItemOnly(cmd) == ItemFailure

\* the message of the catch block of the command
FailureMessage(cmd) == IF cmd = "look" THEN ItemFailure ELSE CreatureFailure

\* the embed of the try block: if (image) embed.setThumbnail(image)
Embed(r) ==
  [title |-> r.title, description |-> r.body,
   thumbnail |-> IF Truthy(r.image) THEN r.image ELSE Undefined]

Pending == [t |-> "pending"]
Value(body, img, ttl) == [t |-> "value", body |-> body, image |-> img, title |-> ttl]
Thrown(message) == [t |-> "error", message |-> message]

NoRes == [kind |-> "none"]

---------------------------------------------------------------------------
(* What the network may answer.                                            *)

S_Axe == <<"A","x","e">>
S_bow == <<"b","o","w">>
S_an == <<"a","n">>
S_10 == <<"1","0">>
S_2 == <<"2">>
S_oz == <<"2","5",".","0","0"," ","o","z">>
S_knights == <<"k","n","i","g","h","t","s">>
S_0pct == <<"0","%">>
S_100pct == <<"1","0","0","%">>
S_110pct == <<"1","1","0","%">>
S_Rat == <<"R","a","t">>

\* an infobox line as the wiki writes it
InfoboxLine(key, value) == <<"|", " ">> \o key \o <<" ", "=", " ">> \o value

Names == {S_Axe, S_bow}

Wikitexts == {
  <<"{","{","I","n","f","o","b","o","x","}","}">>,
  InfoboxLine(K_actualname, S_Axe) \o <<"\n">> \o InfoboxLine(K_imbueslots, S_2),
  InfoboxLine(K_article, S_an) \o <<"\r", "\n">> \o InfoboxLine(K_armor, S_10)
    \o <<"\n">> \o InfoboxLine(K_weight, S_oz)
    \o <<"\n">> \o InfoboxLine(K_vocrequired, S_knights) }

\* what the wiki API may answer to action=parse
ItemPayloads ==
  {JNull, JObj([error |-> JStr(<<"missingtitle">>)]),
   JObj([parse |-> JObj([title |-> JStr(S_Axe)])]),
   JObj([parse |-> JObj([wikitext |-> JStr(<<>>)])])}
  \cup {JObj([parse |-> JObj([wikitext |-> JStr(w)])]) : w \in Wikitexts}

\* what the creature API may answer
CreaturePayloads ==
  {JNull, JNum(404), JStr(<<"n","o","n","e">>), JArr,
   JObj([name |-> JStr(S_Rat)]),
   JObj([hp |-> JNum(0), exp |-> JNum(0)]),
   JObj([hp |-> JStr(<<>>), name |-> JStr(S_Rat)]),
   JObj([hp |-> JNum(20)]),
   JObj([hp |-> JStr(S_10), exp |-> JStr(S_2), actualname |-> JStr(S_Rat)]),
   JObj([hp |-> JNum(1000), exp |-> JNum(500), fireDmgMod |-> JStr(S_0pct),
         physicalDmgMod |-> JStr(S_100pct)]),
   JObj([hp |-> JNum(1000), exp |-> JNum(500), iceDmgMod |-> JStr(S_110pct),
         holyDmgMod |-> JNum(90), name |-> JStr(S_Rat)])}

\* how fetchJson may settle: fetch rejects, the status is not ok, res.json()
\* rejects, or the JSON value is returned
DataOutcomes(payloads) ==
  {[kind |-> "reject"], [kind |-> "status"], [kind |-> "badjson"]}
  \cup {[kind |-> "json", payload |-> x] : x \in payloads}

MetaImage == [property |-> "og:image", content |-> <<"https://static.wikia/img.png">>]
MetaEmpty == [property |-> "og:image", content |-> <<>>]
MetaTitle == [property |-> "og:title", content |-> <<"Tibia Wiki">>]

Htmls == {<<>>, <<MetaTitle>>, <<MetaTitle, MetaImage>>, <<MetaEmpty>>}

\* how the fetch of the page may settle: it rejects, or it resolves to a
\* response with a status, ok or not, and a body
HtmlOutcomes ==
  {[kind |-> "reject"]}
  \cup {[kind |-> "response", ok |-> o, html |-> h, read |-> FALSE] :
          o \in BOOLEAN, h \in Htmls}

---------------------------------------------------------------------------
(* The state machine.                                                      *)

Idle ==
  /\ pc = "idle"
  /\ commandName = ""
  /\ name = <<>>
  /\ requests = <<>>
  /\ dataRes = NoRes
  /\ htmlRes = NoRes
  /\ wikitext = <<>>
  /\ info = EmptyInfo
  /\ look = <<>>
  /\ creature = Undefined
  /\ weaknesses = <<>>
  /\ strengths = <<>>
  /\ image = Undefined
  /\ result = Pending
  /\ reply = [t |-> "none"]

Init == Idle

\* if (!interaction.isChatInputCommand()) return;  and a command that is
\* neither look nor creature passes both tests and returns
InteractionIgnored ==
  /\ pc = "idle"
  /\ \E chat \in BOOLEAN, cmd \in {"look", "creature", "ping"} :
       ~chat \/ cmd = "ping"
  /\ UNCHANGED vars

\* the handler up to await interaction.deferReply()
InteractionCreate ==
  /\ pc = "idle"
  /\ \E cmd \in {"look", "creature"}, nm \in Names :
       /\ commandName' = cmd
       /\ name' = nm
  /\ pc' = "deferReply"
  /\ UNCHANGED <<requests, dataRes, htmlRes, wikitext, info, look, creature,
                 weaknesses, strengths, image, result, reply>>

\* deferReply resolves, the lookup is called and runs up to await fetchJson:
\* the data request is issued
CallLookup ==
  /\ pc = "deferReply"
  /\ reply' = [t |-> "deferred"]
  /\ requests' = Append(requests, "data")
  /\ pc' = "fetchJson"
  /\ UNCHANGED <<commandName, name, dataRes, htmlRes, wikitext, info, look,
                 creature, weaknesses, strengths, image, result>>

\* fetchJson throws: fetch rejected, !res.ok, or res.json() rejected
FetchJsonThrows(out) == out.kind # "json"

\* !apiData || !apiData.parse || !apiData.parse.wikitext, negated
WikitextPresent(apiData) ==
  /\ Truthy(apiData)
  /\ Truthy(Prop(apiData, "parse"))
  /\ Truthy(Prop(Prop(apiData, "parse"), "wikitext"))

\* getItemInfo from the settling of fetchJson to the fetch of the page
ItemDataSettles ==
  /\ pc = "fetchJson"
  /\ commandName = "look"
  /\ \E out \in DataOutcomes(ItemPayloads) :
       /\ dataRes' = out
       /\ IF FetchJsonThrows(out)
          THEN /\ result' = Thrown("Request failed")
               /\ pc' = "settled"
               /\ UNCHANGED <<wikitext, info, look, requests>>
          ELSE IF ~WikitextPresent(out.payload)
          THEN /\ result' = Thrown("Failed to retrieve wikitext for item")
               /\ pc' = "settled"
               /\ UNCHANGED <<wikitext, info, look, requests>>
          ELSE LET text == JsString(Prop(Prop(out.payload, "parse"), "wikitext"))
               IN /\ wikitext' = text
                  /\ info' = ParseInfo(text)
                  /\ look' = ItemLook(ParseInfo(text), name)
                  /\ requests' = Append(requests, "html")
                  /\ pc' = "fetchHtml"
                  /\ UNCHANGED result
  /\ UNCHANGED <<commandName, name, htmlRes, creature, weaknesses, strengths,
                 image, reply>>

\* getCreatureInfo from the settling of fetchJson to the fetch of the page
CreatureDataSettles ==
  /\ pc = "fetchJson"
  /\ commandName = "creature"
  /\ \E out \in DataOutcomes(CreaturePayloads) :
       /\ dataRes' = out
       /\ IF FetchJsonThrows(out)
          THEN /\ result' = Thrown("Request failed")
               /\ pc' = "settled"
               /\ UNCHANGED <<creature, weaknesses, strengths, requests>>
          ELSE IF ~CreatureAccepted(out.payload)
          THEN /\ result' = Thrown("Creature not found")
               /\ pc' = "settled"
               /\ UNCHANGED <<creature, weaknesses, strengths, requests>>
          ELSE /\ creature' = out.payload
               /\ weaknesses' = Weaknesses(out.payload)
               /\ strengths' = Strengths(out.payload)
               /\ requests' = Append(requests, "html")
               /\ pc' = "fetchHtml"
               /\ UNCHANGED result
  /\ UNCHANGED <<commandName, name, htmlRes, wikitext, info, look, image, reply>>

\* await fetch(page) settles; the status of the response is not looked at
HtmlFetchSettles ==
  /\ pc = "fetchHtml"
  /\ \E out \in HtmlOutcomes :
       /\ htmlRes' = out
       /\ IF out.kind = "reject"
          THEN /\ result' = Thrown("fetch failed")
               /\ pc' = "settled"
          ELSE /\ pc' = "text"
               /\ UNCHANGED result
  /\ UNCHANGED <<commandName, name, requests, dataRes, wikitext, info, look,
                 creature, weaknesses, strengths, image, reply>>

\* what the lookup returns once the page is read
LookupValue(cmd, img) ==
  IF cmd = "look" THEN Value(look, img, ActualName(info, name))
  ELSE Value(Description(creature, weaknesses, strengths), img,
             CreatureTitle(creature, name))

\* await htmlRes.text() settles, the image is scraped, the lookup returns
\* the same with the guard on the match left out: metaMatch[1] of no match
\* is a TypeError
HtmlTextSettlesUnguarded ==
  /\ pc = "text"
  /\ \E read \in BOOLEAN :
       /\ htmlRes' = [htmlRes EXCEPT !.read = read]
       /\ IF read /\ ScrapeImage(htmlRes.html).t # "undefined"
          THEN /\ image' = ScrapeImage(htmlRes.html)
               /\ result' = LookupValue(commandName, ScrapeImage(htmlRes.html))
          ELSE /\ result' = Thrown("terminated")
               /\ UNCHANGED image
  /\ pc' = "settled"
  /\ UNCHANGED <<commandName, name, requests, dataRes, wikitext, info,
                 look, creature, weaknesses, strengths, reply>>

\* await htmlRes.text() settles, the image is scraped, the lookup returns
HtmlTextSettles ==
  /\ pc = "text"
  /\ \E read \in BOOLEAN :
       /\ htmlRes' = [htmlRes EXCEPT !.read = read]
       /\ IF read
          THEN /\ image' = ScrapeImage(htmlRes.html)
               /\ result' = LookupValue(commandName, ScrapeImage(htmlRes.html))
          ELSE /\ result' = Thrown("terminated")
               /\ UNCHANGED image
  /\ pc' = "settled"
  /\ UNCHANGED <<commandName, name, requests, dataRes, wikitext, info,
                 look, creature, weaknesses, strengths, reply>>

\* the try block after the lookup: the embed is built and shown
ReplyEmbed ==
  /\ pc = "settled"
  /\ result.t = "value"
  /\ reply' = [t |-> "embed", embed |-> Embed(result)]
  /\ pc' = "replied"
  /\ UNCHANGED <<commandName, name, requests, dataRes, htmlRes, wikitext, info,
                 look, creature, weaknesses, strengths, image, result>>

\* the catch block: the error is logged and the fixed message shown
ReplyFailure ==
  /\ pc = "settled"
  /\ result.t = "error"
  /\ reply' = [t |-> "text", content |-> FailureMessage(commandName)]
  /\ pc' = "replied"
  /\ UNCHANGED <<commandName, name, requests, dataRes, htmlRes, wikitext, info,
                 look, creature, weaknesses, strengths, image, result>>

\* the handler returns; nothing of the invocation is kept
HandlerReturns ==
  /\ pc = "replied"
  /\ pc' = "idle"
  /\ commandName' = ""
  /\ name' = <<>>
  /\ requests' = <<>>
  /\ dataRes' = NoRes
  /\ htmlRes' = NoRes
  /\ wikitext' = <<>>
  /\ info' = EmptyInfo
  /\ look' = <<>>
  /\ creature' = Undefined
  /\ weaknesses' = <<>>
  /\ strengths' = <<>>
  /\ image' = Undefined
  /\ result' = Pending
  /\ reply' = [t |-> "none"]

Next ==
  \/ InteractionIgnored
  \/ InteractionCreate
  \/ CallLookup
  \/ ItemDataSettles
  \/ CreatureDataSettles
  \/ HtmlFetchSettles
  \/ HtmlTextSettles
  \/ ReplyEmbed
  \/ ReplyFailure
  \/ HandlerReturns

Spec == Init /\ [][Next]_vars

---------------------------------------------------------------------------
(* Claims about the handler and the two lookups, stated for Spec.          *)

\* s occurs in text at position i
OccursAt(text, s, i) == i + Len(s) - 1 <= Len(text) /\ SubSeq(text, i, i + Len(s) - 1) = s
Contains(text, s) == \E i \in 1..Len(text) : OccursAt(text, s, i)
StartsWith(text, s) == OccursAt(text, s, 1)

Settled == pc \in {"settled", "replied"}

\* a request ended with a status that is not a success, or never got an answer
DataRequestFailed == dataRes.kind \in {"reject", "status"}
HtmlRequestFailed ==
  \/ htmlRes.kind = "reject"
  \/ htmlRes.kind = "response" /\ (~htmlRes.ok \/ (Settled /\ ~htmlRes.read))

(* C1: once the lookup has settled, if either of its two requests ended    *)
(* with a non-success status or a transport failure, it settled to an      *)
(* error and returned no result.                                           *)
C1_FailedRequestFailsLookup ==
  (Settled /\ (DataRequestFailed \/ HtmlRequestFailed)) => result.t = "error"

\* the payload carries the field the lookup is after
WikitextFieldPresent(p) == Prop(Prop(p, "parse"), "wikitext").t # "undefined"
HpFieldPresent(p) == Prop(p, "hp").t # "undefined"

\* the reasons for which a lookup fails
LookupFailed ==
  \/ dataRes.kind \in {"reject", "status", "badjson"}
  \/ dataRes.kind = "json" /\ commandName = "look"
       /\ ~WikitextFieldPresent(dataRes.payload)
  \/ dataRes.kind = "json" /\ commandName = "creature"
       /\ ~HpFieldPresent(dataRes.payload)
  \/ htmlRes.kind = "reject"
  \/ result.t = "error"

(* C2: when the lookup of a handled command has failed, for whatever       *)
(* reason, the reply is the fixed failure message of that command: the     *)
(* item message for look, the creature message for creature, and no embed. *)
C2_FailureShowsCommandMessage ==
  (pc = "replied" /\ LookupFailed) =>
    /\ reply.t = "text"
    /\ commandName = "look" => reply.content = ItemFailure
    /\ commandName = "creature" => reply.content = CreatureFailure

C2_Witness ==
  /\ pc = "replied"
  /\ commandName = "creature"
  /\ dataRes.kind = "json"
  /\ ~HpFieldPresent(dataRes.payload)
  /\ reply.t = "text"

(* C4: once the creature API has answered with JSON, getCreatureInfo has   *)
(* failed with the not-found error exactly when the answer is not an       *)
(* object or has no hp field; and a result built from an answer with an hp *)
(* field starts with "Hit Points: " and that hp.                           *)
C4_NotFoundIffNoHpField ==
  (commandName = "creature" /\ dataRes.kind = "json") =>
    LET p == dataRes.payload
        carriesHp == p.t = "obj" /\ HpFieldPresent(p)
    IN /\ (result = Thrown("Creature not found")) <=> ~carriesHp
       /\ (carriesHp /\ result.t = "value") =>
            StartsWith(result.body, <<"Hit Points: ">> \o JsString(Prop(p, "hp")))

\* the page was read and holds no og:image tag
NoOgImage ==
  /\ htmlRes.kind = "response"
  /\ htmlRes.read
  /\ \A i \in 1..Len(htmlRes.html) : htmlRes.html[i].property # "og:image"

(* C9: when the page was read and has no og:image tag, the lookup has      *)
(* succeeded with an undefined image, and the reply, once given, is the    *)
(* embed of the result without a thumbnail, not the failure message.       *)
C9_MissingImageIsNoError ==
  (Settled /\ NoOgImage) =>
    /\ result.t = "value"
    /\ result.image.t = "undefined"
    /\ pc = "replied" =>
         /\ reply.t = "embed"
         /\ reply.embed.thumbnail.t = "undefined"
         /\ reply.embed.description = result.body

C9_Witness ==
  /\ pc = "replied"
  /\ NoOgImage
  /\ reply.t = "embed"

(* C10: an invocation issues the data request and then, at most, the page  *)
(* request, never one of them twice; the page request is issued only once  *)
(* the data fetch has returned a payload that carries the field looked for *)
(* (wikitext or hp); and a lookup that failed at the data fetch or         *)
(* rejected the payload has issued the data request alone.                 *)
C10_AtMostTwoSequentialRequests ==
  /\ requests \in {<<>>, <<"data">>, <<"data", "html">>}
  /\ pc \in {"fetchJson"} => requests = <<"data">>
  /\ Len(requests) = 2 =>
       /\ dataRes.kind = "json"
       /\ commandName = "look" => WikitextFieldPresent(dataRes.payload)
       /\ commandName = "creature" => HpFieldPresent(dataRes.payload)
  /\ (Settled /\ (dataRes.kind # "json"
                   \/ result = Thrown("Failed to retrieve wikitext for item")
                   \/ result = Thrown("Creature not found"))) =>
       requests = <<"data">>

C10_Witness ==
  /\ pc = "text"
  /\ requests = <<"data", "html">>
  /\ commandName = "creature"

---------------------------------------------------------------------------
(* The parsing of the wikitext on its own: every short line over a small   *)
(* alphabet, alone or followed by a line that matches.                     *)

LineChars == {"|", "=", " ", "a", "B"}

ProbeLines == UNION {[1..n -> LineChars] : n \in 0..MaxLineLen}

LaterLines == {<<"|", "a", "=", "a">>, <<"|", " ", "B", " ", "=", " ", "B">>}

InitParse ==
  /\ pc = "parse"
  /\ \E l \in ProbeLines :
       \/ wikitext = l
       \/ \E sep \in {<<"\n">>, <<"\r", "\n">>}, m \in LaterLines :
            wikitext = l \o sep \o m
  /\ commandName = "look"
  /\ name = S_Axe
  /\ requests = <<"data">>
  /\ dataRes = NoRes
  /\ htmlRes = NoRes
  /\ info = EmptyInfo
  /\ look = <<>>
  /\ creature = Undefined
  /\ weaknesses = <<>>
  /\ strengths = <<>>
  /\ image = Undefined
  /\ result = Pending
  /\ reply = [t |-> "deferred"]

\* the loop that fills info from the wikitext
ApplyParse ==
  /\ pc = "parse"
  /\ info' = ParseInfo(wikitext)
  /\ pc' = "parsed"
  /\ UNCHANGED <<commandName, name, requests, dataRes, htmlRes, wikitext, look,
                 creature, weaknesses, strengths, image, result, reply>>

SpecParse == InitParse /\ [][ApplyParse]_vars

TrimLeft(s) ==
  LET keep == {i \in 1..Len(s) : ~IsSpace(s[i])}
  IN IF keep = {} THEN <<>>
     ELSE Slice(s, CHOOSE i \in keep : \A j \in keep : i <= j, Len(s))

FirstEquals(s) == CHOOSE i \in 1..Len(s) : s[i] = "=" /\ \A j \in 1..(i - 1) : s[j] # "="

\* a pipe, a key, an equals sign and a value, white space around each
OfTheForm(line) ==
  LET t == TrimLeft(line)
  IN /\ Len(t) > 0
     /\ t[1] = "|"
     /\ \E i \in 1..Len(t) : t[i] = "="
     /\ Trim(Slice(t, 2, FirstEquals(t) - 1)) # <<>>

FormKey(line) ==
  LET t == TrimLeft(line) IN ToLowerCase(Trim(Slice(t, 2, FirstEquals(t) - 1)))
FormValue(line) ==
  LET t == TrimLeft(line) IN Trim(Slice(t, FirstEquals(t) + 1, Len(t)))

(* C8: after the parsing, every line of the form (a pipe, a key, an equals *)
(* sign and a value, with white space before or after any of them) whose   *)
(* key no later line repeats has set the field of the lower-cased key to   *)
(* the trimmed value, and the FieldMap has no field that no such line set  *)
(* (the field of the empty key, which a line whose key is blank sets, is   *)
(* left aside).                                                            *)
C8_LinesOfTheFormSetTheField ==
  pc = "parsed" =>
    LET lines == SplitLines(wikitext)
    IN /\ \A i \in 1..Len(lines) :
            (/\ OfTheForm(lines[i])
             /\ \A j \in (i + 1)..Len(lines) :
                  ~(OfTheForm(lines[j]) /\ FormKey(lines[j]) = FormKey(lines[i])))
            => /\ FormKey(lines[i]) \in DOMAIN info
               /\ info[FormKey(lines[i])] = FormValue(lines[i])
       /\ \A k \in DOMAIN info \ {<<>>} :
            \E i \in 1..Len(lines) : OfTheForm(lines[i]) /\ FormKey(lines[i]) = k

---------------------------------------------------------------------------
(* The description of an item on its own: infoboxes put together from a    *)
(* choice of fields, parsed and turned into the description.               *)

SlotChars == {"2", "x", "-", " "}

\* what the page may write for its imbuement slots: a count, or anything
SlotValues ==
  {NatToString(n) : n \in 0..MaxSlots}
  \cup UNION {[1..n -> SlotChars] : n \in 1..MaxSlotLen}

\* the line of a field, or no line
OptionalLine(key, values) == {<<>>} \cup {<< InfoboxLine(key, v) >> : v \in values}

OtherLines ==
  {<<>>,
   << InfoboxLine(K_armor, S_10), InfoboxLine(K_upgradeclass, S_2),
      InfoboxLine(K_level_req, S_10), InfoboxLine(K_weight, S_oz) >>}

InitItem ==
  /\ pc = "item"
  /\ name \in Names
  /\ \E a \in OptionalLine(K_article, {S_an}),
        n \in OptionalLine(K_actualname, {S_Axe, S_bow}),
        s \in OptionalLine(K_imbueslots, SlotValues),
        t \in OptionalLine(K_imbuing_slots, {<<"1">>, <<"x">>}),
        o \in OtherLines :
       wikitext = Join(a \o n \o s \o t \o o, <<"\n">>)
  /\ commandName = "look"
  /\ requests = <<"data">>
  /\ dataRes = NoRes
  /\ htmlRes = NoRes
  /\ info = EmptyInfo
  /\ look = <<>>
  /\ creature = Undefined
  /\ weaknesses = <<>>
  /\ strengths = <<>>
  /\ image = Undefined
  /\ result = Pending
  /\ reply = [t |-> "deferred"]

\* getItemInfo from the wikitext to the description
ApplyItem ==
  /\ pc = "item"
  /\ info' = ParseInfo(wikitext)
  /\ look' = ItemLook(ParseInfo(wikitext), name)
  /\ pc' = "itemDone"
  /\ UNCHANGED <<commandName, name, requests, dataRes, htmlRes, wikitext,
                 creature, weaknesses, strengths, image, result, reply>>

SpecItem == InitItem /\ [][ApplyItem]_vars

IsVowel(c) == c \in {"a", "e", "i", "o", "u", "A", "E", "I", "O", "U"}

(* C5: when the markup has no article field, the article of the opening    *)
(* sentence is "an" if the actual name starts with a vowel and "a"         *)
(* otherwise, the actual name being the actualname field, or the name      *)
(* given when there is no such field.                                      *)
C5_ArticleFollowsActualName ==
  (pc = "itemDone" /\ K_article \notin DOMAIN info) =>
    LET actual == IF K_actualname \in DOMAIN info THEN info[K_actualname] ELSE name
        article == IF Len(actual) > 0 /\ IsVowel(actual[1]) THEN <<"an">> ELSE <<"a">>
    IN StartsWith(look, <<"You see ">> \o article \o <<" ">> \o ToLowerCase(actual))

\* the fragment that follows the imbuement line
AfterImbueLine == {"\nClassification: ", " Tier: "}

(* C6: for an item whose imbueslots field is the count n, the imbuement    *)
(* line is "Imbuements: " and n "(Empty Slot)" markers with one space      *)
(* between two of them when n > 0, and "Imbuements: None" when n = 0.      *)
C6_OneMarkerPerSlotSpaceJoined ==
  pc = "itemDone" =>
    \A n \in 0..MaxSlots :
      (K_imbueslots \in DOMAIN info /\ info[K_imbueslots] = NatToString(n)) =>
        LET line == IF n > 0
                    THEN <<"\nImbuements: ">>
                         \o Join([i \in 1..n |-> <<"(Empty Slot)">>], <<" ">>)
                    ELSE <<"\nImbuements: None">>
        IN \E i \in 1..Len(look) :
             /\ OccursAt(look, line, i)
             /\ i + Len(line) <= Len(look)
             /\ look[i + Len(line)] \in AfterImbueLine

\* the value getItemInfo reads the slots from, under either spelling
SlotField == FirstOf(info, <<K_imbueslots, K_imbuing_slots>>, <<>>)

\* an optional sign and digits, and nothing else
IsInteger(s) ==
  LET d == IF Len(s) > 0 /\ s[1] \in {"+", "-"} THEN Tail(s) ELSE s
  IN Len(d) > 0 /\ \A i \in 1..Len(d) : IsDigit(d[i])

\* an optional sign and a digit come first
LeadsWithInteger(s) ==
  LET d == IF Len(s) > 0 /\ s[1] \in {"+", "-"} THEN Tail(s) ELSE s
  IN Len(d) > 0 /\ IsDigit(d[1])

(* C7, as claimed: when the imbuement-slots field, under either spelling,  *)
(* holds a value that is not a valid integer, the description has the      *)
(* line "Imbuements: None".                                                *)
C7_InvalidIntegerMeansNone ==
  (pc = "itemDone" /\ SlotField # <<>> /\ ~IsInteger(SlotField)) =>
    Contains(look, <<"\nImbuements: None">>)

(* C7, amended: when the imbuement-slots field, under either spelling,     *)
(* holds a value that does not begin with an integer, the description is   *)
(* built all the same and has the line "Imbuements: None" and no marker.   *)
C7_NoLeadingIntegerMeansNone ==
  (pc = "itemDone" /\ SlotField # <<>> /\ ~LeadsWithInteger(SlotField)) =>
    /\ Contains(look, <<"\nImbuements: None">>)
    /\ ~Contains(look, <<"(Empty Slot)">>)
    /\ ~Contains(look, <<"\nImbuements: ">>)
    /\ StartsWith(look, <<"You see ">>)

C7_Witness ==
  /\ pc = "itemDone"
  /\ SlotField = <<"x">>
  /\ K_imbueslots \notin DOMAIN info
  /\ Contains(look, <<"\nImbuements: None">>)

---------------------------------------------------------------------------
(* The classification of the damage modifiers on its own: records with a   *)
(* few modifier fields, each a percentage written as the API writes it.    *)

\* percentages, in tenths of a percent: none, the spec's examples, and the
\* neighbourhood of the baseline
Percentages ==
  {0, 900, 1100} \cup ((Baseline * 10 - Spread)..(Baseline * 10 + Spread))

\* "99.9", "100"
Decimal(p) ==
  NatToString(p \div 10)
  \o (IF p % 10 = 0 THEN <<>> ELSE <<".", Digits[(p % 10) + 1]>>)

\* the raw modifier of a percentage: the string "110%", or the number 110
PercentString(p) == JStr(Decimal(p) \o <<"%">>)
PercentNumber(p) == JNum(p \div 10)

ModValues ==
  {PercentString(p) : p \in Percentages}
  \cup {PercentNumber(p) : p \in {q \in Percentages : q % 10 = 0}}

BaseRecord == [hp |-> JNum(1000), exp |-> JNum(500)]

WithFields(base, extra) ==
  [f \in DOMAIN base \cup DOMAIN extra |->
     IF f \in DOMAIN extra THEN extra[f] ELSE base[f]]

\* what the fields beside the probed one hold: a strength or a weakness
CompanionValues == {PercentString(900), PercentString(1100)}

\* a record with the field of element i set to v and the companions to cv
CreatureInput(i, v, cv) ==
  JObj(WithFields(BaseRecord,
         [f \in {Elements[i].field} \cup {Elements[j].field : j \in DOMAIN cv} |->
            IF f = Elements[i].field THEN v
            ELSE cv[CHOOSE j \in DOMAIN cv : Elements[j].field = f]]))

InitCreature ==
  /\ pc = "creature"
  /\ \/ creature = JObj(BaseRecord)
     \/ \E i \in 1..Len(Elements), v \in ModValues :
          \E others \in SUBSET ((1..Len(Elements)) \ {i}) :
            /\ Cardinality(others) <= MaxCompanions
            /\ \E cv \in [others -> CompanionValues] :
                 creature = CreatureInput(i, v, cv)
  /\ commandName = "creature"
  /\ name = S_Rat
  /\ requests = <<"data">>
  /\ dataRes = NoRes
  /\ htmlRes = NoRes
  /\ wikitext = <<>>
  /\ info = EmptyInfo
  /\ look = <<>>
  /\ weaknesses = <<>>
  /\ strengths = <<>>
  /\ image = Undefined
  /\ result = Pending
  /\ reply = [t |-> "deferred"]

\* getCreatureInfo from the record to the description
ApplyCreature ==
  /\ pc = "creature"
  /\ weaknesses' = Weaknesses(creature)
  /\ strengths' = Strengths(creature)
  /\ result' = Value(Description(creature, Weaknesses(creature), Strengths(creature)),
                     Undefined, CreatureTitle(creature, name))
  /\ pc' = "creatureDone"
  /\ UNCHANGED <<commandName, name, requests, dataRes, htmlRes, wikitext, info,
                 look, creature, image, reply>>

SpecCreature == InitCreature /\ [][ApplyCreature]_vars

IndexOf(text, fragment) == CHOOSE i \in 1..Len(text) : text[i] = fragment

\* what the description lists under "Weak against" and under "Strong against"
WeakSection(body) ==
  Slice(body, IndexOf(body, "\nWeak against: ") + 1,
              IndexOf(body, "\nStrong against: ") - 1)
StrongSection(body) ==
  Slice(body, IndexOf(body, "\nStrong against: ") + 1, Len(body))

Occurrences(text, s) == Cardinality({i \in 1..Len(text) : OccursAt(text, s, i)})

\* the element is named nowhere in the section
Unlisted(section, element) == \A i \in 1..Len(section) : section[i] # element

\* the raw modifier as it is printed
RawOf(p, asNumber) == IF asNumber THEN NatToString(p \div 10) ELSE Decimal(p) \o <<"%">>

(* C3: for each of the nine modifier fields and every percentage p the     *)
(* field may hold: p > 100 lists "{element} ({raw modifier})" once under   *)
(* "Weak against" and the element not under "Strong against"; p < 100 the  *)
(* other way round; p = 100, or no field, lists the element under neither; *)
(* and a section that lists nothing reads "none".                          *)
C3_ModifiersClassified ==
  pc = "creatureDone" =>
    LET weak == WeakSection(result.body)
        strong == StrongSection(result.body)
    IN /\ \A i \in 1..Len(Elements) :
            LET e == Elements[i].element
                mod == Prop(creature, Elements[i].field)
            IN /\ mod.t = "undefined" => Unlisted(weak, e) /\ Unlisted(strong, e)
               /\ \A p \in Percentages, asNumber \in BOOLEAN :
                    LET entry == <<e, " (">> \o RawOf(p, asNumber) \o <<")">>
                    IN (/\ asNumber => p % 10 = 0
                        /\ mod = IF asNumber THEN PercentNumber(p) ELSE PercentString(p)) =>
                         /\ p > Baseline * 10 =>
                              Occurrences(weak, entry) = 1 /\ Occurrences(weak, <<e>>) = 1
                              /\ Unlisted(strong, e)
                         /\ p < Baseline * 10 =>
                              Occurrences(strong, entry) = 1 /\ Occurrences(strong, <<e>>) = 1
                              /\ Unlisted(weak, e)
                         /\ p = Baseline * 10 => Unlisted(weak, e) /\ Unlisted(strong, e)
       /\ (\A i \in 1..Len(Elements) : Unlisted(weak, Elements[i].element))
            => weak = <<"none">>
       /\ (\A i \in 1..Len(Elements) : Unlisted(strong, Elements[i].element))
            => strong = <<"none">>

C3_Witness ==
  /\ pc = "creatureDone"
  /\ Prop(creature, "fireDmgMod") = PercentString(Baseline * 10 + 1)
  /\ Prop(creature, "iceDmgMod") = PercentString(900)
  /\ weaknesses # <<>>
  /\ strengths # <<>>

===========================================================================
